---- MODULE Spec2Model ----
(***************************************************************************)
(* Model of web_app.py: normalize_text, find_in_knowledge_base, the chat   *)
(* handler with call_yandex_gpt and log_interaction, the admin handlers of *)
(* the knowledge base, the menu and the suggestions, and the process-wide  *)
(* collections and files they read and write.                              *)
(*                                                                         *)
(* A Python str is a sequence of one-character strings, <<"a"," ","b">>.   *)
(* Python's None is the value None below, which is no such sequence.       *)
(***************************************************************************)
EXTENDS Integers, Sequences, FiniteSets, TLC

VARIABLES
    KNOWLEDGE_BASE,  \* dict question -> answer, as the sequence of its items
    MENU_CACHE,      \* list of menu items, NoMenu when it is None
    suggestionMap,   \* dict topic -> list of suggestions, as a function
    bot_log,         \* the entries of bot_log.json
    text,            \* argument of the last normalize_text call
    normalized,      \* what that call returned
    renormalized,    \* normalize_text applied to that result
    question,        \* argument of the last find_in_knowledge_base call
    result,          \* what that call returned
    entry,           \* the collections as they were when that call was entered
    pc,              \* which step acted last
    message,         \* "message" of the JSON body of the last chat request
    menu_topic,      \* chat's menu_topic when the handler ended
    reply,           \* what the chat handler returned, or Raised
    calls,           \* what the handler called: generator, lookups, log records
    writer_pc,       \* per concurrent request: where its log_interaction stands
    writer_logs,     \* per concurrent request: the logs its log_interaction read
    files,           \* knowledge_base.json, menu.json and suggestions.json
    request,         \* the last admin request: its session and what it was told
    requests,        \* how many requests were served
    gpt_run          \* a call of call_yandex_gpt, pass by pass

chat_vars == <<message, menu_topic, reply, calls>>
writer_vars == <<writer_pc, writer_logs>>
admin_vars == <<files, request, requests>>

vars == <<KNOWLEDGE_BASE, MENU_CACHE, suggestionMap, bot_log, text, normalized,
          renormalized, question, result, entry, pc, chat_vars, writer_vars,
          admin_vars, gpt_run>>

collections == <<KNOWLEDGE_BASE, MENU_CACHE, suggestionMap, bot_log>>

----------------------------------------------------------------------------
(* Bounds of the model *)

\* longest argument of normalize_text
MaxLen == 5
\* longest question and longest stored key, in characters
MaxChars == 3
\* most words in a question of the word-overlap specification
MaxWords == 4
\* most words in a stored key of the word-overlap specification
MaxKeyWords == 2
\* most entries of the knowledge base
MaxEntries == 2
\* most items of the menu
MaxMenuItems == 2
\* most suggestions of one topic
MaxSuggestions == 2
\* most requests writing the log at the same time
MaxWriters == 3

----------------------------------------------------------------------------
(* Characters and Python values *)

None == <<"None">>

LowerLetters == {"a", "b", "c", "d", "e", "f", "l", "r", "t", "u", "v"}
UpperLetters == {"A", "R", "V"}
\* Cyrillic small letters ve and er, named by their code points
CyrillicLetters == {"u0432", "u0440"}
Digits == {"1"}
Underscore == {"_"}
Punctuation == {"!"}
Whitespace == {" ", "\t"}

Chars == LowerLetters \cup UpperLetters \cup CyrillicLetters \cup Digits
             \cup Underscore \cup Punctuation \cup Whitespace

\* the characters normalize_text is run on
NormChars == {"a", "A", "1", "_", "!", " ", "\t"}

\* sequences over S of length at most n
StrsUpTo(S, n) == UNION {[1..k -> S] : k \in 0..n}

\* Python truthiness of None or a str
Truthy(v) == v # None /\ v # <<>>

\* str.lower() on one character
LowerChar(c) ==
    CASE c = "A" -> "a"
      [] c = "R" -> "r"
      [] c = "V" -> "v"
      [] OTHER -> c

\* \w of re (str pattern): letters, digits and the underscore
IsWordChar(c) ==
    c \in LowerLetters \cup UpperLetters \cup CyrillicLetters \cup Digits \cup Underscore

\* \s of re and the characters str.strip() and str.split() treat as blank
IsSpace(c) == c \in Whitespace

----------------------------------------------------------------------------
(* normalize_text, step by step *)

\* a lower() that leaves capitals as they are
lower_identity(s) == s

lower(s) == [i \in 1..Len(s) |-> LowerChar(s[i])]

\* re.sub(r'[^\w\s]', '', text)
RemoveNonWord(s) == SelectSeq(s, LAMBDA c : IsWordChar(c) \/ IsSpace(c))

RECURSIVE CollapseFrom(_, _)
CollapseFrom(s, i) ==
    IF i > Len(s) THEN <<>>
    ELSE IF IsSpace(s[i])
         THEN IF i > 1 /\ IsSpace(s[i - 1])
              THEN CollapseFrom(s, i + 1)
              ELSE <<" ">> \o CollapseFrom(s, i + 1)
         ELSE <<s[i]>> \o CollapseFrom(s, i + 1)

\* re.sub(r'\s+', ' ', text)
CollapseSpaces(s) == CollapseFrom(s, 1)

RECURSIVE lstrip(_)
lstrip(s) == IF s # <<>> /\ IsSpace(Head(s)) THEN lstrip(Tail(s)) ELSE s

RECURSIVE rstrip(_)
rstrip(s) ==
    IF s # <<>> /\ IsSpace(s[Len(s)]) THEN rstrip(SubSeq(s, 1, Len(s) - 1)) ELSE s

\* str.strip()
strip(s) == rstrip(lstrip(s))

\* normalize_text with strip() moved before the two substitutions
normalize_text_strip_first(t) ==
    IF ~Truthy(t) THEN <<>>
    ELSE CollapseSpaces(RemoveNonWord(strip(lower(t))))

normalize_text(t) ==
    IF ~Truthy(t) THEN <<>>
    ELSE strip(CollapseSpaces(RemoveNonWord(lower(t))))

----------------------------------------------------------------------------
(* Python str and dict operations used by find_in_knowledge_base *)

\* a in b, for two str
IsSubstring(a, b) ==
    \E i \in 0..(Len(b) - Len(a)) : SubSeq(b, i + 1, i + Len(a)) = a

RECURSIVE SplitFrom(_, _, _)
SplitFrom(s, i, word) ==
    IF i > Len(s) THEN IF word = <<>> THEN <<>> ELSE <<word>>
    ELSE IF IsSpace(s[i])
         THEN IF word = <<>> THEN SplitFrom(s, i + 1, <<>>)
              ELSE <<word>> \o SplitFrom(s, i + 1, <<>>)
         ELSE SplitFrom(s, i + 1, Append(word, s[i]))

\* str.split(): the list of the whitespace-delimited words
split(s) == SplitFrom(s, 1, <<>>)

\* set(list)
SetOf(seq) == {seq[i] : i \in 1..Len(seq)}

\* question in KNOWLEDGE_BASE
HasKey(kb, q) == \E i \in 1..Len(kb) : kb[i].question = q

\* KNOWLEDGE_BASE[question]
Lookup(kb, q) == kb[CHOOSE i \in 1..Len(kb) : kb[i].question = q].answer

----------------------------------------------------------------------------
(* find_in_knowledge_base: the three scans and the scoring loop *)

\* the exact-normalized scan keeping the last matching key instead of the first
RECURSIVE NormalizedScanLast(_, _, _)
NormalizedScanLast(kb, normalized_question, i) ==
    IF i > Len(kb) THEN [hit |-> FALSE, value |-> None]
    ELSE LET later == NormalizedScanLast(kb, normalized_question, i + 1) IN
         IF later.hit THEN later
         ELSE IF normalize_text(kb[i].question) = normalized_question
              THEN [hit |-> TRUE, value |-> kb[i].answer]
              ELSE later

RECURSIVE NormalizedScan(_, _, _)
NormalizedScan(kb, normalized_question, i) ==
    IF i > Len(kb) THEN [hit |-> FALSE, value |-> None]
    ELSE IF normalize_text(kb[i].question) = normalized_question
         THEN [hit |-> TRUE, value |-> kb[i].answer]
         ELSE NormalizedScan(kb, normalized_question, i + 1)

\* the substring scan testing only whether the key is inside the question
RECURSIVE SubstringScanKeyInQuestion(_, _, _)
SubstringScanKeyInQuestion(kb, normalized_question, i) ==
    IF i > Len(kb) THEN [hit |-> FALSE, value |-> None]
    ELSE IF IsSubstring(normalize_text(kb[i].question), normalized_question)
         THEN [hit |-> TRUE, value |-> kb[i].answer]
         ELSE SubstringScanKeyInQuestion(kb, normalized_question, i + 1)

\* the substring scan passing over empty strings
RECURSIVE SubstringScanNonEmpty(_, _, _)
SubstringScanNonEmpty(kb, normalized_question, i) ==
    IF i > Len(kb) THEN [hit |-> FALSE, value |-> None]
    ELSE LET normalized_key == normalize_text(kb[i].question) IN
         IF /\ normalized_key # <<>> /\ normalized_question # <<>>
            /\ \/ IsSubstring(normalized_key, normalized_question)
               \/ IsSubstring(normalized_question, normalized_key)
         THEN [hit |-> TRUE, value |-> kb[i].answer]
         ELSE SubstringScanNonEmpty(kb, normalized_question, i + 1)

RECURSIVE SubstringScan(_, _, _)
SubstringScan(kb, normalized_question, i) ==
    IF i > Len(kb) THEN [hit |-> FALSE, value |-> None]
    ELSE LET normalized_key == normalize_text(kb[i].question) IN
         IF IsSubstring(normalized_key, normalized_question)
                \/ IsSubstring(normalized_question, normalized_key)
         THEN [hit |-> TRUE, value |-> kb[i].answer]
         ELSE SubstringScan(kb, normalized_question, i + 1)

\* score >= max(1, len(question_words) * 0.5), on integers
ScoreQualifies(score, question_words) ==
    score >= 1 /\ 2 * score >= Cardinality(question_words)

\* the scoring loop with score >= best_score: an equal score replaces the best
RECURSIVE ScoreLoopLaterWins(_, _, _, _, _)
ScoreLoopLaterWins(kb, question_words, i, best_match, best_score) ==
    IF i > Len(kb) THEN best_match
    ELSE LET key_words == SetOf(split(normalize_text(kb[i].question)))
             score == Cardinality(question_words \cap key_words)
         IN  IF score >= best_score /\ ScoreQualifies(score, question_words)
             THEN ScoreLoopLaterWins(kb, question_words, i + 1, kb[i].answer, score)
             ELSE ScoreLoopLaterWins(kb, question_words, i + 1, best_match, best_score)

RECURSIVE ScoreLoop(_, _, _, _, _)
ScoreLoop(kb, question_words, i, best_match, best_score) ==
    IF i > Len(kb) THEN best_match
    ELSE LET key_words == SetOf(split(normalize_text(kb[i].question)))
             score == Cardinality(question_words \cap key_words)
         IN  IF score > best_score /\ ScoreQualifies(score, question_words)
             THEN ScoreLoop(kb, question_words, i + 1, kb[i].answer, score)
             ELSE ScoreLoop(kb, question_words, i + 1, best_match, best_score)

\* len(question_words) > 1
OverlapAttempted(question_words) == Cardinality(question_words) > 1

WordOverlap(kb, normalized_question) ==
    LET question_words == SetOf(split(normalized_question)) IN
    IF OverlapAttempted(question_words)
    THEN LET best_match == ScoreLoop(kb, question_words, 1, None, 0) IN
         IF Truthy(best_match) THEN best_match ELSE None
    ELSE None

\* find_in_knowledge_base with the substring scan ahead of the exact-normalized one
find_substring_first(q, kb) ==
    LET normalized_question == normalize_text(q)
        exact == NormalizedScan(kb, normalized_question, 1)
        partial == SubstringScan(kb, normalized_question, 1)
    IN  IF HasKey(kb, q) THEN Lookup(kb, q)
        ELSE IF partial.hit THEN partial.value
        ELSE IF exact.hit THEN exact.value
        ELSE WordOverlap(kb, normalized_question)

\* find_in_knowledge_base without the test question in KNOWLEDGE_BASE
find_without_raw_test(q, kb) ==
    LET normalized_question == normalize_text(q)
        exact == NormalizedScan(kb, normalized_question, 1)
        partial == SubstringScan(kb, normalized_question, 1)
    IN  IF exact.hit THEN exact.value
        ELSE IF partial.hit THEN partial.value
        ELSE WordOverlap(kb, normalized_question)

find_in_knowledge_base(q, kb) ==
    LET normalized_question == normalize_text(q)
        exact == NormalizedScan(kb, normalized_question, 1)
        partial == SubstringScan(kb, normalized_question, 1)
    IN  IF HasKey(kb, q) THEN Lookup(kb, q)
        ELSE IF exact.hit THEN exact.value
        ELSE IF partial.hit THEN partial.value
        ELSE WordOverlap(kb, normalized_question)

----------------------------------------------------------------------------
(* Texts the program holds as literals. A fixed message is one token: only  *)
(* its identity and its being non-empty matter to the handlers.             *)

DefaultTopic == <<"d", "e", "f", "a", "u", "l", "t">>
PromptForInput == <<"#ask-a-question">>
ErrorAnswer == <<"#error">>
AuthApology == <<"#check-api-key">>
ParamsApology == <<"#check-folder-id">>
GiveUpApology == <<"#try-later">>
\* f"... {str(e)}": the error answer followed by the exception's text
ErrorDetail(e) == ErrorAnswer \o <<":", e>>

----------------------------------------------------------------------------
(* call_yandex_gpt *)

\* range(3)
Attempts == 3

\* what one requests.post can lead to: a completion, a 200 whose body lacks
\* result/alternatives, a status code, or a RequestException
GptOutcomes == {"text", "malformed", "401", "400", "500", "timeout"}
GeneratedText == <<"g">>

\* the loop from its attempt-th pass on; failed tells whether the generator
\* delivered no completion
RECURSIVE Attempt(_, _)
Attempt(outs, attempt) ==
    IF attempt > Attempts
    THEN [raised |-> FALSE, value |-> GiveUpApology, failed |-> TRUE]
    ELSE CASE outs[attempt] = "text" ->
                [raised |-> FALSE, value |-> GeneratedText, failed |-> FALSE]
           [] outs[attempt] = "malformed" ->
                [raised |-> TRUE, value |-> <<"KeyError">>, failed |-> TRUE]
           [] outs[attempt] = "401" ->
                [raised |-> FALSE, value |-> AuthApology, failed |-> TRUE]
           [] outs[attempt] = "400" ->
                [raised |-> FALSE, value |-> ParamsApology, failed |-> TRUE]
           [] OTHER -> Attempt(outs, attempt + 1)

call_yandex_gpt(outs) == Attempt(outs, 1)

\* every way a call can end
GptReplies == {call_yandex_gpt(outs) : outs \in [1..Attempts -> GptOutcomes]}
\* the handler did not call the generator
NoCall == [raised |-> FALSE, value |-> None, failed |-> FALSE]

----------------------------------------------------------------------------
(* log_interaction *)

LogEntry(q, answer, source) == [question |-> q, answer |-> answer, source |-> source]

\* a call that appends its entry twice
log_interaction_twice(logs, log_entry, ok) ==
    IF ok THEN Append(Append(logs, log_entry), log_entry) ELSE logs

\* the whole call: read the file, append, write it back; ok is whether the
\* reads and writes inside its try block went through
log_interaction(logs, log_entry, ok) == IF ok THEN Append(logs, log_entry) ELSE logs

----------------------------------------------------------------------------
(* chat *)

\* suggestionMap.get(topic, [])
Get(smap, topic) == IF topic \in DOMAIN smap THEN smap[topic] ELSE <<>>

\* [{"text": s["text"], "question": s["question"]} for s in ...]
Labels(topic_suggestions) ==
    [i \in 1..Len(topic_suggestions) |->
        [text |-> topic_suggestions[i].text, question |-> topic_suggestions[i].question]]

\* the message taken as it came, not stripped
request_question_raw(msg) == msg
\* data.get("message", "").strip()
request_question(msg) == strip(msg)

\* the menu loop taking the last matching item
RECURSIVE menu_topic_last(_, _, _)
menu_topic_last(q, menu_items, i) ==
    IF i > Len(menu_items) THEN None
    ELSE LET later == menu_topic_last(q, menu_items, i + 1)
         IN  IF later # None THEN later
             ELSE IF normalize_text(menu_items[i].question) = normalize_text(q)
                  THEN menu_items[i].suggestion_topic
                  ELSE None

\* step 1: the menu loop from item i on, with its break
RECURSIVE menu_topic_from(_, _, _)
menu_topic_from(q, menu_items, i) ==
    IF i > Len(menu_items) THEN None
    ELSE IF normalize_text(menu_items[i].question) = normalize_text(q)
         THEN menu_items[i].suggestion_topic
         ELSE menu_topic_from(q, menu_items, i + 1)

\* step 4: the loop over the topic's suggestions from item i on, with its break
RECURSIVE suggestion_answer_from(_, _, _)
suggestion_answer_from(q, topic_suggestions, i) ==
    IF i > Len(topic_suggestions) THEN None
    ELSE IF normalize_text(topic_suggestions[i].question) = normalize_text(q)
         THEN topic_suggestions[i].answer
         ELSE suggestion_answer_from(q, topic_suggestions, i + 1)

\* what a run of the handler comes to: the JSON returned (or raised), the
\* topic found, the records handed to log_interaction, the calls made
Outcome(raised, response, source, suggestions, topic, records, gpt_calls, kb_calls) ==
    [raised |-> raised, response |-> response, source |-> source,
     suggestions |-> suggestions, menu_topic |-> topic, records |-> records,
     gpt_calls |-> gpt_calls, kb_calls |-> kb_calls]

\* the except clause of chat, entered with question bound
chat_except(q, e, topic, gpt_calls, kb_calls) ==
    Outcome(FALSE, ErrorAnswer, "error", <<>>, topic,
            <<LogEntry(q, ErrorDetail(e), "error")>>, gpt_calls, kb_calls)

\* step 2 with the lookup and the generator called before the source is set
\* from the generator alone
no_topic_path_untagged(q, kb_first, kb_second, smap, gpt) ==
    LET suggestions == Labels(Get(smap, DefaultTopic))
        found == find_in_knowledge_base(q, kb_first)
    IN  IF gpt.raised THEN chat_except(q, gpt.value[1], None, 1, 1)
        ELSE LET response == IF Truthy(found) THEN found ELSE gpt.value
             IN  Outcome(FALSE, response, "yandex_gpt", suggestions, None,
                         <<LogEntry(q, response, "yandex_gpt")>>, 1, 1)

\* step 2: no topic; kb_first and kb_second are the knowledge base as the
\* first and the second find_in_knowledge_base call read it
no_topic_path(q, kb_first, kb_second, smap, gpt) ==
    LET suggestions == Labels(Get(smap, DefaultTopic))
        found == find_in_knowledge_base(q, kb_first)
        source == IF Truthy(find_in_knowledge_base(q, kb_second))
                  THEN "knowledge_base" ELSE "yandex_gpt"
    IN  IF Truthy(found)
        THEN Outcome(FALSE, found, source, suggestions, None,
                     <<LogEntry(q, found, source)>>, 0, 2)
        ELSE IF gpt.raised THEN chat_except(q, gpt.value[1], None, 1, 1)
        ELSE Outcome(FALSE, gpt.value, source, suggestions, None,
                     <<LogEntry(q, gpt.value, source)>>, 1, 2)

\* steps 3 to 6 with the knowledge base asked before the suggestions
topic_path_kb_first(q, topic, kb, smap, gpt) ==
    LET topic_suggestions == Get(smap, topic)
        suggestions == Labels(topic_suggestions)
        canned == suggestion_answer_from(q, topic_suggestions, 1)
        found == find_in_knowledge_base(q, kb)
    IN  IF Truthy(found)
        THEN Outcome(FALSE, found, "knowledge_base", suggestions, topic,
                     <<LogEntry(q, found, "knowledge_base")>>, 0, 1)
        ELSE IF Truthy(canned)
        THEN Outcome(FALSE, canned, "suggestion_map", suggestions, topic,
                     <<LogEntry(q, canned, "suggestion_map")>>, 0, 1)
        ELSE IF gpt.raised THEN chat_except(q, gpt.value[1], topic, 1, 1)
        ELSE Outcome(FALSE, gpt.value, "yandex_gpt", suggestions, topic,
                     <<LogEntry(q, gpt.value, "yandex_gpt")>>, 1, 1)

\* steps 3 to 6: the topic's suggestions, then the knowledge base, then the
\* generator
topic_path(q, topic, kb, smap, gpt) ==
    LET topic_suggestions == Get(smap, topic)
        suggestions == Labels(topic_suggestions)
        canned == suggestion_answer_from(q, topic_suggestions, 1)
        found == find_in_knowledge_base(q, kb)
    IN  IF Truthy(canned)
        THEN Outcome(FALSE, canned, "suggestion_map", suggestions, topic,
                     <<LogEntry(q, canned, "suggestion_map")>>, 0, 0)
        ELSE IF Truthy(found)
        THEN Outcome(FALSE, found, "knowledge_base", suggestions, topic,
                     <<LogEntry(q, found, "knowledge_base")>>, 0, 1)
        ELSE IF gpt.raised THEN chat_except(q, gpt.value[1], topic, 1, 1)
        ELSE Outcome(FALSE, gpt.value, "yandex_gpt", suggestions, topic,
                     <<LogEntry(q, gpt.value, "yandex_gpt")>>, 1, 1)

\* the handler on a request whose JSON body holds msg under "message" (None
\* for a JSON null, "" for none at all). On None .strip() raises before
\* question is bound, and the except clause, which reads question, raises in
\* its turn.
chat(msg, kb, menu_items, smap, gpt) ==
    IF msg = None
    THEN Outcome(TRUE, None, "", <<>>, None, <<>>, 0, 0)
    ELSE LET q == request_question(msg)
             topic == menu_topic_from(q, menu_items, 1)
         IN  IF ~Truthy(q)
             THEN Outcome(FALSE, PromptForInput, "error", <<>>, None, <<>>, 0, 0)
             ELSE IF ~Truthy(topic)
             THEN [no_topic_path(q, kb, kb, smap, gpt) EXCEPT !.menu_topic = topic]
             ELSE topic_path(q, topic, kb, smap, gpt)

----------------------------------------------------------------------------
(* Inputs *)

\* the answers a knowledge base holds: an empty one and two distinct texts
Answers == {<<>>, <<"x">>, <<"y">>}

\* what a handler passes on: a stripped, non-empty str
IsRequestText(q) == q # <<>> /\ strip(q) = q

\* dicts of at most n items over the keys K, in every insertion order
Bases(K, n) ==
    {kb \in UNION {[1..k -> [question : K, answer : Answers]] : k \in 0..n} :
        \A i, j \in 1..Len(kb) : i # j => kb[i].question # kb[j].question}

\* keys as add_knowledge_item and update_knowledge_item store them
\* (question.strip().lower()), character by character
KeyChars == {"a", " ", "!"}
CharKeys == {k \in StrsUpTo(KeyChars, MaxChars) : strip(k) = k}

\* questions as chat, ask and voice_ask pass them on, character by character
QuestionChars == {"a", "A", " ", "!"}
CharQuestions == {q \in StrsUpTo(QuestionChars, MaxChars) : IsRequestText(q)}

\* keys and questions made of whole words, one space between two words
KeyVocabulary == {<<"a">>, <<"b">>, <<"c">>}
QuestionVocabulary == KeyVocabulary \cup {<<"A">>}

RECURSIVE Join(_)
Join(ws) == IF Len(ws) = 1 THEN ws[1] ELSE ws[1] \o <<" ">> \o Join(Tail(ws))

Phrases(V, n) == {Join(ws) : ws \in UNION {[1..k -> V] : k \in 1..n}}
WordKeys == Phrases(KeyVocabulary, MaxKeyWords)
WordQuestions == Phrases(QuestionVocabulary, MaxWords)

\* menu.json and suggestions.json as created when the files are missing
VrTopic == <<"v", "r">>
DefaultList == << [text |-> <<"d">>, question |-> <<"b">>, answer |-> <<"y">>] >>
DefaultMenu ==
    << [admin_text |-> <<"V", "R">>, question |-> <<"v", "r">>, suggestion_topic |-> VrTopic],
       [admin_text |-> <<"B">>, question |-> <<"b">>, suggestion_topic |-> DefaultTopic] >>
DefaultSuggestions ==
    [topic \in {VrTopic, DefaultTopic} |->
        IF topic = VrTopic
        THEN << [text |-> <<"l">>, question |-> <<"a", " ", "b">>, answer |-> <<"x">>] >>
        ELSE DefaultList]

\* menus as add_menu_item and edit_menu_item leave them: questions stripped,
\* lower-cased, non-empty and distinct; the topic is the form field as sent
UnknownTopic == <<"u">>
MenuQuestions == {<<"a">>, <<"a", "!">>}
MenuTopics == {VrTopic, DefaultTopic, UnknownTopic, <<>>}
Menus(n) ==
    {m \in UNION {[1..k -> [question : MenuQuestions, suggestion_topic : MenuTopics]] :
                     k \in 0..n} :
        \A i, j \in 1..Len(m) : i # j => m[i].question # m[j].question}

\* suggestion lists as add_suggestion and edit_suggestion leave them: every
\* field non-empty, labels distinct within the topic
Suggestions ==
    { [text |-> <<"l">>, question |-> <<"a">>, answer |-> <<"s">>],
      [text |-> <<"l">>, question |-> <<"b">>, answer |-> <<"s">>],
      [text |-> <<"r">>, question |-> <<"a">>, answer |-> <<"t">>],
      [text |-> <<"r">>, question |-> <<"b">>, answer |-> <<"t">>] }
SuggestionLists(n) ==
    {l \in UNION {[1..k -> Suggestions] : k \in 0..n} :
        \A i, j \in 1..Len(l) : i # j => l[i].text # l[j].text}
\* a populated "default" topic, and the topic "vr" absent or of any list
SuggestionMaps(n) ==
    {[topic \in {DefaultTopic} |-> DefaultList]} \cup
    {[topic \in {VrTopic, DefaultTopic} |->
         IF topic = VrTopic THEN l ELSE DefaultList] : l \in SuggestionLists(n)}

\* the knowledge bases of the chat specifications: no entry, or one entry
\* whose answer is empty or not
ChatBases(K) ==
    {<<>>} \cup {<<[question |-> k, answer |-> v]>> : k \in K, v \in {<<>>, <<"x">>}}
\* "message" of a chat request: None for a JSON null, else a str as sent
MessageChars == {"a", "A", " "}
MaxMessage == 2
ChatMessages == StrsUpTo(MessageChars, MaxMessage) \cup {None}

\* the same over Latin and Cyrillic letters: a menu of one item that leads to
\* the topic "vr", and messages over v, r and the Cyrillic ve, er
ScriptQuestions == {<<"v", "r">>, <<"u0432", "u0440">>}
ScriptMenus == {<<[question |-> k, suggestion_topic |-> VrTopic]>> : k \in ScriptQuestions}
ScriptChars == {"v", "r", "V", "R", "u0432", "u0440"}
ScriptMessages == StrsUpTo(ScriptChars, MaxMessage)

----------------------------------------------------------------------------
(* Steps *)

\* one call normalize_text(text)
Normalize ==
    /\ pc = "init"
    /\ normalized' = normalize_text(text)
    /\ pc' = "normalized"
    /\ UNCHANGED <<collections, text, renormalized, question, result, entry,
                   chat_vars, writer_vars,
                   admin_vars, gpt_run>>

\* a second call, on the value the first returned
Renormalize ==
    /\ pc = "normalized"
    /\ renormalized' = normalize_text(normalized)
    /\ pc' = "renormalized"
    /\ UNCHANGED <<collections, text, normalized, question, result, entry,
                   chat_vars, writer_vars,
                   admin_vars, gpt_run>>

\* a call that stores the answer it found under the question it was asked
FindAndRemember(q) ==
    LET found == find_in_knowledge_base(q, KNOWLEDGE_BASE) IN
    /\ pc = "init"
    /\ question' = q
    /\ result' = found
    /\ entry' = collections
    /\ pc' = "found"
    /\ KNOWLEDGE_BASE' =
          IF found # None /\ ~HasKey(KNOWLEDGE_BASE, q)
          THEN Append(KNOWLEDGE_BASE, [question |-> q, answer |-> found])
          ELSE KNOWLEDGE_BASE
    /\ UNCHANGED <<MENU_CACHE, suggestionMap, bot_log, text, normalized, renormalized,
                   chat_vars, writer_vars,
                   admin_vars, gpt_run>>

\* one call find_in_knowledge_base(q)
Find(q) ==
    /\ pc = "init"
    /\ question' = q
    /\ result' = find_in_knowledge_base(q, KNOWLEDGE_BASE)
    /\ entry' = collections
    /\ pc' = "found"
    /\ UNCHANGED <<collections, text, normalized, renormalized, chat_vars, writer_vars,
                   admin_vars, gpt_run>>

\* one chat request, from the parsing of its body to its response; gpt is
\* how a call of the generator would end, log_ok whether the log write works
Chat(msg, gpt, log_ok) ==
    /\ pc = "init"
    /\ \E r \in {chat(msg, KNOWLEDGE_BASE, MENU_CACHE, suggestionMap, gpt)} :
          /\ message' = msg
          /\ menu_topic' = r.menu_topic
          /\ reply' = [raised |-> r.raised, response |-> r.response,
                       source |-> r.source, suggestions |-> r.suggestions]
          /\ calls' = [gpt |-> IF r.gpt_calls > 0 THEN gpt ELSE NoCall,
                       gpt_calls |-> r.gpt_calls, kb_calls |-> r.kb_calls,
                       log_calls |-> Len(r.records),
                       written |-> r.records # <<>> /\ log_ok]
          /\ bot_log' = IF r.records = <<>> THEN bot_log
                        ELSE log_interaction(bot_log, r.records[1], log_ok)
    /\ entry' = collections
    /\ pc' = "chatted"
    /\ UNCHANGED <<KNOWLEDGE_BASE, MENU_CACHE, suggestionMap, text, normalized,
                   renormalized, question, result, writer_vars, admin_vars, gpt_run>>

\* log_interaction of concurrent requests, file operation by file operation.
\* Request w records the question <<w>>.
Writers == 1..MaxWriters
WriterEntry(w) == LogEntry(<<w>>, <<"x">>, "knowledge_base")

\* open(LOG_FILE, "r"), f.read(), json.loads
LogRead(w, ok) ==
    /\ writer_pc[w] = "called"
    /\ writer_pc' = [writer_pc EXCEPT ![w] = IF ok THEN "read" ELSE "failed"]
    /\ writer_logs' = [writer_logs EXCEPT ![w] = IF ok THEN bot_log ELSE @]
    /\ UNCHANGED <<collections, text, normalized, renormalized, question, result,
                   entry, pc, chat_vars, admin_vars, gpt_run>>

\* logs.append(log_entry), open(LOG_FILE, "w"), json.dump
LogWrite(w, ok) ==
    /\ writer_pc[w] = "read"
    /\ writer_pc' = [writer_pc EXCEPT ![w] = IF ok THEN "done" ELSE "failed"]
    /\ bot_log' = IF ok THEN Append(writer_logs[w], WriterEntry(w)) ELSE bot_log
    /\ UNCHANGED <<KNOWLEDGE_BASE, MENU_CACHE, suggestionMap, text, normalized,
                   renormalized, question, result, entry, pc, chat_vars, writer_logs,
                   admin_vars, gpt_run>>

\* call_yandex_gpt, pass by pass. timeout=10 bounds a post, time.sleep(1)
\* follows every pass that neither returned nor raised.
Timeout == 10
PostSeconds == {1, 3, 5, Timeout}
GptIdle == [state |-> "idle", attempt |-> 0, seconds |-> 0, value |-> None]

GptCall ==
    /\ gpt_run.state = "idle"
    /\ gpt_run' = [gpt_run EXCEPT !.state = "posting"]
    /\ UNCHANGED <<collections, text, normalized, renormalized, question, result,
                   entry, pc, chat_vars, writer_vars, admin_vars>>

\* requests.post and the branches on what it gave
GptPost(outcome, took) ==
    /\ gpt_run.state = "posting"
    /\ outcome = "timeout" => took = Timeout
    /\ gpt_run' =
          [gpt_run EXCEPT
              !.seconds = @ + took,
              !.state = CASE outcome \in {"text", "401", "400"} -> "returned"
                          [] outcome = "malformed" -> "raised"
                          [] OTHER -> "sleeping",
              !.value = CASE outcome = "text" -> GeneratedText
                          [] outcome = "401" -> AuthApology
                          [] outcome = "400" -> ParamsApology
                          [] outcome = "malformed" -> <<"KeyError">>
                          [] OTHER -> None]
    /\ UNCHANGED <<collections, text, normalized, renormalized, question, result,
                   entry, pc, chat_vars, writer_vars, admin_vars>>

\* time.sleep(1), then the next pass of range(3) or the return after the loop
GptSleep ==
    /\ gpt_run.state = "sleeping"
    /\ gpt_run' =
          IF gpt_run.attempt + 1 < Attempts
          THEN [gpt_run EXCEPT !.seconds = @ + 1, !.attempt = @ + 1, !.state = "posting"]
          ELSE [gpt_run EXCEPT !.seconds = @ + 1, !.attempt = @ + 1,
                               !.state = "returned", !.value = GiveUpApology]
    /\ UNCHANGED <<collections, text, normalized, renormalized, question, result,
                   entry, pc, chat_vars, writer_vars, admin_vars>>

NoReply == [raised |-> FALSE, response |-> None, source |-> "", suggestions |-> <<>>]
\* no admin request served yet
NoRequest ==
    [handler |-> "", admin |-> FALSE, args |-> <<>>, success |-> FALSE, wrote |-> "none"]
\* the three files as the loads at start-up leave them: equal to the memory
FilesOf(kb, menu_items, smap) == [knowledge |-> kb, menu |-> menu_items, suggestions |-> smap]

----------------------------------------------------------------------------
(* The admin handlers. Each takes session.get("admin_logged_in") as admin,  *)
(* the URL parameters and the form as sent, and whether the write of the    *)
(* file went through; a write that fails leaves the file as it was.         *)

\* what a request was told (flash "success" or {"success": true}), whether it
\* came to write its file ("none" when it did not), and the memory and files
\* it found
Served(handler, admin, args, success, wrote) ==
    [handler |-> handler, admin |-> admin, args |-> args, success |-> success,
     wrote |-> wrote, before |-> [memory |-> collections, files |-> files]]
\* how the write of a handler that came to write ended
Wrote(write_ok) == IF write_ok THEN "ok" ELSE "failed"

\* suggestionMap[topic] = topic_suggestions
Put(smap, topic, topic_suggestions) ==
    [t \in DOMAIN smap \cup {topic} |-> IF t = topic THEN topic_suggestions ELSE smap[t]]
\* the first i with topic_suggestions[i]["text"] == label, 0 when there is none
IndexOfText(topic_suggestions, label) ==
    IF \E i \in 1..Len(topic_suggestions) : topic_suggestions[i].text = label
    THEN CHOOSE i \in 1..Len(topic_suggestions) :
            /\ topic_suggestions[i].text = label
            /\ \A j \in 1..(i - 1) : topic_suggestions[j].text # label
    ELSE 0
\* list.pop(i)
Pop(list, i) == [j \in 1..(Len(list) - 1) |-> IF j < i THEN list[j] ELSE list[j + 1]]
\* [s for s in topic_suggestions if s["text"] != label]
RECURSIVE WithoutText(_, _)
WithoutText(topic_suggestions, label) ==
    IF topic_suggestions = <<>> THEN <<>>
    ELSE IF Head(topic_suggestions).text = label
         THEN WithoutText(Tail(topic_suggestions), label)
         ELSE <<Head(topic_suggestions)>> \o WithoutText(Tail(topic_suggestions), label)

save_suggestion_map(fs, smap, write_ok) ==
    IF write_ok THEN [fs EXCEPT !.suggestions = smap] ELSE fs

\* the suggestion handlers end alike: suggestionMap as they left it, saved when
\* they changed it, and what they told the requester
SuggestionsServed(handler, admin, args, changed, smap, write_ok) ==
    /\ suggestionMap' = smap
    /\ files' = IF changed THEN save_suggestion_map(files, smap, write_ok) ELSE files
    /\ request' = Served(handler, admin, args, changed,
                         IF changed THEN Wrote(write_ok) ELSE "none")
    /\ UNCHANGED <<KNOWLEDGE_BASE, MENU_CACHE, bot_log, text, normalized, renormalized,
                   question, result, entry, pc, chat_vars, writer_vars, gpt_run>>

AddSuggestion(admin, form, write_ok) ==
    LET topic == lower(strip(form.topic))
        label == strip(form.text)
        new == [text |-> label, question |-> lower(strip(form.question)),
                answer |-> strip(form.answer)]
        ok == /\ admin
              /\ Truthy(topic) /\ Truthy(label) /\ Truthy(new.question) /\ Truthy(new.answer)
              /\ IndexOfText(Get(suggestionMap, topic), label) = 0
    IN  SuggestionsServed("add_suggestion", admin, <<>>, ok,
            IF ok THEN Put(suggestionMap, topic, Append(Get(suggestionMap, topic), new))
            ELSE suggestionMap, write_ok)

DeleteSuggestion(admin, topic, label, write_ok) ==
    LET ok == admin /\ topic \in DOMAIN suggestionMap
    IN  SuggestionsServed("delete_suggestion", admin, <<>>, ok,
            IF ok THEN Put(suggestionMap, topic, WithoutText(suggestionMap[topic], label))
            ELSE suggestionMap, write_ok)

\* the POST branch; the GET branch renders the form and changes nothing
EditSuggestion(admin, topic, label, form, write_ok) ==
    LET new_topic == lower(strip(form.topic))
        new == [text |-> strip(form.text), question |-> lower(strip(form.question)),
                answer |-> strip(form.answer)]
        i == IndexOfText(Get(suggestionMap, topic), label)
        ok == /\ admin
              /\ Truthy(new_topic) /\ Truthy(new.text) /\ Truthy(new.question)
              /\ Truthy(new.answer)
              /\ i > 0
        popped == Put(suggestionMap, topic, Pop(suggestionMap[topic], i))
    IN  SuggestionsServed("edit_suggestion", admin, <<>>, ok,
            IF ~ok THEN suggestionMap
            ELSE IF new_topic # topic
                 THEN Put(popped, new_topic, Append(Get(popped, new_topic), new))
                 ELSE Put(suggestionMap, topic, [suggestionMap[topic] EXCEPT ![i] = new]),
            write_ok)

\* the form fields are taken as sent, neither stripped nor lower-cased
UpdateSuggestion(admin, topic, old_text, form, write_ok) ==
    LET new == [text |-> form.text, question |-> form.question, answer |-> form.answer]
        i == IndexOfText(Get(suggestionMap, topic), old_text)
        ok == /\ admin
              /\ Truthy(topic) /\ Truthy(old_text) /\ Truthy(new.text)
              /\ Truthy(new.question) /\ Truthy(new.answer)
              /\ i > 0
    IN  SuggestionsServed("update_suggestion", admin, <<>>, ok,
            IF ok THEN Put(suggestionMap, topic, [suggestionMap[topic] EXCEPT ![i] = new])
            ELSE suggestionMap, write_ok)

\* the three greetings of get_default_knowledge, their keys and answers cut
\* to letters and tokens of the model
get_default_knowledge ==
    << [question |-> <<"u0432">>, answer |-> <<"#hello">>],
       [question |-> <<"u0440">>, answer |-> <<"#bye">>],
       [question |-> <<"u0432", "u0440">>, answer |-> <<"#welcome">>] >>

\* KNOWLEDGE_BASE[key] = value: in place for a key the dict has, else at the end
DictSet(kb, key, value) ==
    IF HasKey(kb, key)
    THEN [i \in 1..Len(kb) |-> IF kb[i].question = key
                                THEN [question |-> key, answer |-> value] ELSE kb[i]]
    ELSE Append(kb, [question |-> key, answer |-> value])
\* del KNOWLEDGE_BASE[key], for a key the dict may not have
RECURSIVE DictDel(_, _)
DictDel(kb, key) ==
    IF kb = <<>> THEN <<>>
    ELSE IF Head(kb).question = key THEN DictDel(Tail(kb), key)
         ELSE <<Head(kb)>> \o DictDel(Tail(kb), key)

\* the write to knowledge_base.json left out
KnowledgeUnwritten(kb, fs, returned, write_ok) ==
    [kb |-> kb, files |-> fs, returned |-> returned, wrote |-> Wrote(write_ok)]
\* the three functions without DATABASE_URL: the dict, then knowledge_base.json
KnowledgeWritten(kb, fs, returned, write_ok) ==
    [kb |-> kb, files |-> IF write_ok THEN [fs EXCEPT !.knowledge = kb] ELSE fs,
     returned |-> returned, wrote |-> Wrote(write_ok)]
add_knowledge_item(kb, fs, q, answer, write_ok) ==
    KnowledgeWritten(DictSet(kb, lower(strip(q)), strip(answer)), fs, TRUE, write_ok)
update_knowledge_item(kb, fs, old_question, new_question, answer, write_ok) ==
    KnowledgeWritten(DictSet(DictDel(kb, old_question), lower(strip(new_question)),
                             strip(answer)), fs, TRUE, write_ok)
delete_knowledge_item(kb, fs, q, write_ok) ==
    IF HasKey(kb, q) THEN KnowledgeWritten(DictDel(kb, q), fs, write_ok, write_ok)
    ELSE [kb |-> kb, files |-> fs, returned |-> FALSE, wrote |-> "none"]

\* load_knowledge_base without DATABASE_URL; knowledge_base.json exists from
\* the start-up on
load_knowledge_base(fs, read_ok) ==
    IF read_ok THEN fs.knowledge ELSE get_default_knowledge

\* GET and POST of /admin/knowledge; form.action is "view" for a GET
KnowledgeEdit(admin, form, read_ok, write_ok) ==
    LET q == lower(strip(form.question))
        answer == strip(form.answer)
        old_question == lower(strip(form.old_question))
        done ==
            CASE form.action = "add" /\ Truthy(q) /\ Truthy(answer) ->
                    add_knowledge_item(KNOWLEDGE_BASE, files, q, answer, write_ok)
              [] form.action = "edit" /\ Truthy(q) /\ Truthy(answer)
                                      /\ Truthy(old_question) ->
                    update_knowledge_item(KNOWLEDGE_BASE, files, old_question, q, answer,
                                          write_ok)
              [] form.action = "delete" /\ Truthy(q) ->
                    delete_knowledge_item(KNOWLEDGE_BASE, files, q, write_ok)
              [] OTHER ->
                    [kb |-> KNOWLEDGE_BASE, files |-> files, returned |-> FALSE,
                     wrote |-> "none"]
    IN  /\ IF admin
           THEN /\ KNOWLEDGE_BASE' = load_knowledge_base(done.files, read_ok)
                /\ files' = done.files
                /\ request' = Served("knowledge_edit", admin,
                                     [form |-> form, changed |-> done.kb, read_ok |-> read_ok],
                                     done.returned, done.wrote)
           ELSE /\ UNCHANGED <<KNOWLEDGE_BASE, files>>
                /\ request' = Served("knowledge_edit", admin, <<>>, FALSE, "none")
        /\ UNCHANGED <<MENU_CACHE, suggestionMap, bot_log, text, normalized, renormalized,
                       question, result, entry, pc, chat_vars, writer_vars, gpt_run>>

\* the form fields are tested as sent; add_knowledge_item strips them
EditResponse(admin, form, write_ok) ==
    LET ok == admin /\ Truthy(form.question) /\ Truthy(form.answer)
        done == add_knowledge_item(KNOWLEDGE_BASE, files, form.question, form.answer,
                                   write_ok)
    IN  /\ KNOWLEDGE_BASE' = IF ok THEN done.kb ELSE KNOWLEDGE_BASE
        /\ files' = IF ok THEN done.files ELSE files
        /\ request' = Served("edit_response", admin, <<>>, ok,
                             IF ok THEN done.wrote ELSE "none")
        /\ UNCHANGED <<MENU_CACHE, suggestionMap, bot_log, text, normalized, renormalized,
                       question, result, entry, pc, chat_vars, writer_vars, gpt_run>>

KnowledgeForms ==
    [action : {"add", "edit", "delete", "view"}, question : {<<"A">>, <<"b">>, <<" ">>},
     answer : {<<"y">>}, old_question : {<<"a">>}]

\* a message that leads to no topic, and one that leads to a topic
KnowledgeMessages == {<<"a">>, <<"b">>}

\* chat in two steps, other requests being served in between: up to the first
\* find_in_knowledge_base of the path without a topic, and from there on
ChatLookup(msg) ==
    /\ pc = "init"
    /\ message' = msg
    /\ entry' = collections
    /\ pc' = "looking"
    /\ UNCHANGED <<collections, text, normalized, renormalized, question, result,
                   menu_topic, reply, calls, writer_vars, admin_vars, gpt_run>>

ChatFinish(gpt, log_ok) ==
    /\ pc = "looking"
    /\ \E r \in {LET q == request_question(message)
                      topic == menu_topic_from(q, MENU_CACHE, 1)
                  IN  IF message # None /\ Truthy(q) /\ ~Truthy(topic)
                      THEN [no_topic_path(q, entry[1], KNOWLEDGE_BASE, suggestionMap, gpt)
                               EXCEPT !.menu_topic = topic]
                      ELSE chat(message, entry[1], MENU_CACHE, suggestionMap, gpt)} :
          /\ menu_topic' = r.menu_topic
          /\ reply' = [raised |-> r.raised, response |-> r.response,
                       source |-> r.source, suggestions |-> r.suggestions]
          /\ calls' = [gpt |-> IF r.gpt_calls > 0 THEN gpt ELSE NoCall,
                       gpt_calls |-> r.gpt_calls, kb_calls |-> r.kb_calls,
                       log_calls |-> Len(r.records),
                       written |-> r.records # <<>> /\ log_ok]
          /\ bot_log' = IF r.records = <<>> THEN bot_log
                        ELSE log_interaction(bot_log, r.records[1], log_ok)
    /\ pc' = "chatted"
    /\ UNCHANGED <<KNOWLEDGE_BASE, MENU_CACHE, suggestionMap, text, normalized,
                   renormalized, question, result, entry, message, writer_vars,
                   admin_vars, gpt_run>>

\* MENU_CACHE = None, told apart from every list of items
NoMenu == <<[admin_text |-> None, question |-> None, suggestion_topic |-> None]>>

\* load_menu: the cached list if there is one, else the file, cached when it
\* could be read; menu.json exists from the start-up on
load_menu(cache, fs, read_ok) ==
    IF cache # NoMenu THEN [menu_items |-> cache, cache |-> cache]
    ELSE IF read_ok THEN [menu_items |-> fs.menu, cache |-> fs.menu]
    ELSE [menu_items |-> <<>>, cache |-> NoMenu]

\* save_menu(menu_items) after the handler changed the list load_menu gave it:
\* the file and MENU_CACHE on a write that went through; on one that failed
\* the file as it was, and a cached list changed all the same, being the list
\* the handler changed in place
save_menu(fs, loaded, menu_items, write_ok) ==
    [files |-> IF write_ok THEN [fs EXCEPT !.menu = menu_items] ELSE fs,
     cache |-> IF write_ok \/ loaded.cache # NoMenu THEN menu_items ELSE NoMenu]

\* any(item.get(field) == value for item in menu_items), but for item `index`
Taken(menu_items, field, value, index) ==
    \E i \in 1..Len(menu_items) : i # index + 1 /\ menu_items[i][field] = value

\* the item of a form: admin_text stripped, question stripped and lower-cased,
\* the topic as sent
MenuItemOf(form) ==
    [admin_text |-> strip(form.admin_text), question |-> lower(strip(form.question)),
     suggestion_topic |-> form.suggestion_topic]
FormFilled(form) ==
    /\ Truthy(strip(form.admin_text))
    /\ Truthy(strip(form.display_text))
    /\ Truthy(lower(strip(form.question)))

\* the menu handlers end alike; an add or an edit is remembered with the list
\* load_menu gave it
MenuServed(handler, admin, args, success, wrote, saved) ==
    /\ MENU_CACHE' = saved.cache
    /\ files' = saved.files
    /\ request' = Served(handler, admin, args, success, wrote)
    /\ UNCHANGED <<KNOWLEDGE_BASE, suggestionMap, bot_log, text, normalized, renormalized,
                   question, result, entry, pc, chat_vars, writer_vars, gpt_run>>

\* an add that does not look for the question among the items
AddMenuItemUnchecked(admin, form, read_ok, write_ok) ==
    LET loaded == load_menu(MENU_CACHE, files, read_ok)
        new_item == MenuItemOf(form)
    IN  IF ~admin \/ ~FormFilled(form)
        THEN MenuServed("add_menu_item", admin, <<form, <<>>>>, FALSE, "none",
                        [files |-> files, cache |-> MENU_CACHE])
        ELSE IF Taken(loaded.menu_items, "admin_text", new_item.admin_text, -1)
        THEN MenuServed("add_menu_item", admin, <<form, loaded.menu_items>>, FALSE, "none",
                        [files |-> files, cache |-> loaded.cache])
        ELSE MenuServed("add_menu_item", admin, <<form, loaded.menu_items>>, TRUE, Wrote(write_ok),
                        save_menu(files, loaded, Append(loaded.menu_items, new_item),
                                  write_ok))

AddMenuItem(admin, form, read_ok, write_ok) ==
    LET loaded == load_menu(MENU_CACHE, files, read_ok)
        new_item == MenuItemOf(form)
    IN  IF ~admin \/ ~FormFilled(form)
        THEN MenuServed("add_menu_item", admin, <<form, <<>>>>, FALSE, "none",
                        [files |-> files, cache |-> MENU_CACHE])
        ELSE IF \/ Taken(loaded.menu_items, "admin_text", new_item.admin_text, -1)
                \/ Taken(loaded.menu_items, "question", new_item.question, -1)
        THEN MenuServed("add_menu_item", admin, <<form, loaded.menu_items>>, FALSE, "none",
                        [files |-> files, cache |-> loaded.cache])
        ELSE MenuServed("add_menu_item", admin, <<form, loaded.menu_items>>, TRUE, Wrote(write_ok),
                        save_menu(files, loaded, Append(loaded.menu_items, new_item),
                                  write_ok))

\* index counts from 0, as in the URL
EditMenuItem(admin, index, form, read_ok, write_ok) ==
    LET loaded == load_menu(MENU_CACHE, files, read_ok)
        new_item == MenuItemOf(form)
    IN  IF ~admin
        THEN MenuServed("edit_menu_item", admin, <<index, form, <<>>>>, FALSE, "none",
                        [files |-> files, cache |-> MENU_CACHE])
        ELSE IF \/ ~(0 <= index /\ index < Len(loaded.menu_items))
                \/ ~FormFilled(form)
                \/ Taken(loaded.menu_items, "admin_text", new_item.admin_text, index)
                \/ Taken(loaded.menu_items, "question", new_item.question, index)
        THEN MenuServed("edit_menu_item", admin, <<index, form, loaded.menu_items>>, FALSE, "none",
                        [files |-> files, cache |-> loaded.cache])
        ELSE MenuServed("edit_menu_item", admin, <<index, form, loaded.menu_items>>, TRUE, Wrote(write_ok),
                        save_menu(files, loaded,
                                  [loaded.menu_items EXCEPT ![index + 1] = new_item],
                                  write_ok))

DeleteMenuItem(admin, index, read_ok, write_ok) ==
    LET loaded == load_menu(MENU_CACHE, files, read_ok)
    IN  IF ~admin
        THEN MenuServed("delete_menu_item", admin, <<index>>, FALSE, "none",
                        [files |-> files, cache |-> MENU_CACHE])
        ELSE IF ~(0 <= index /\ index < Len(loaded.menu_items))
        THEN MenuServed("delete_menu_item", admin, <<index>>, FALSE, "none",
                        [files |-> files, cache |-> loaded.cache])
        ELSE MenuServed("delete_menu_item", admin, <<index>>, TRUE, Wrote(write_ok),
                        save_menu(files, loaded, Pop(loaded.menu_items, index + 1),
                                  write_ok))

\* clear_menu_cache and clear_cache_now: no look at the session
ClearMenuCache(admin, read_ok) ==
    MenuServed("clear_menu_cache", admin, <<>>, TRUE, "none",
               [files |-> files, cache |-> load_menu(NoMenu, files, read_ok).cache])

MenuIndexes == 0..MaxMenuItems
MenuForms ==
    [admin_text : {<<"m">>, <<"B">>}, display_text : {<<"t">>, <<" ">>},
     question : {<<"A">>, <<"b", " ">>}, suggestion_topic : {DefaultTopic}]

\* the topics and labels of the URLs, and the forms
UrlTopics == {DefaultTopic, VrTopic, UnknownTopic}
UrlTexts == {<<"d">>, <<"l">>}
SuggestionForms ==
    [topic : {DefaultTopic, <<"V", "r">>, <<>>}, text : {<<"d">>, <<"l">>},
     question : {<<"A">>}, answer : {<<"s", " ">>}]
NoCalls == [gpt |-> NoCall, gpt_calls |-> 0, kb_calls |-> 0, log_calls |-> 0,
            written |-> FALSE]

InitRest ==
    /\ bot_log = <<>>
    /\ entry = collections
    /\ message = None
    /\ menu_topic = None
    /\ reply = NoReply
    /\ calls = NoCalls
    /\ writer_pc = [w \in Writers |-> "called"]
    /\ writer_logs = [w \in Writers |-> <<>>]
    /\ files = FilesOf(KNOWLEDGE_BASE, MENU_CACHE, suggestionMap)
    /\ request = NoRequest
    /\ requests = 0
    /\ gpt_run = GptIdle
    /\ normalized = None
    /\ renormalized = None
    /\ question = None
    /\ result = None
    /\ pc = "init"

\* normalize_text over every str of the alphabet, and None
InitNorm ==
    /\ KNOWLEDGE_BASE = <<>>
    /\ MENU_CACHE = DefaultMenu
    /\ suggestionMap = DefaultSuggestions
    /\ text \in StrsUpTo(NormChars, MaxLen) \cup {None}
    /\ InitRest
NextNorm == Normalize \/ Renormalize
SpecNorm == InitNorm /\ [][NextNorm]_vars

\* find_in_knowledge_base over character-level keys and questions
Init ==
    /\ KNOWLEDGE_BASE \in Bases(CharKeys, MaxEntries)
    /\ MENU_CACHE = DefaultMenu
    /\ suggestionMap = DefaultSuggestions
    /\ text = None
    /\ InitRest
Next == \E q \in CharQuestions : Find(q)
Spec == Init /\ [][Next]_vars

\* find_in_knowledge_base over keys and questions of whole words
InitWords ==
    /\ KNOWLEDGE_BASE \in Bases(WordKeys, MaxEntries)
    /\ MENU_CACHE = DefaultMenu
    /\ suggestionMap = DefaultSuggestions
    /\ text = None
    /\ InitRest
NextWords == \E q \in WordQuestions : Find(q)
SpecWords == InitWords /\ [][NextWords]_vars

\* chat over small knowledge bases, menus and suggestion maps
InitChat ==
    /\ KNOWLEDGE_BASE \in ChatBases({<<"a">>})
    /\ MENU_CACHE \in Menus(MaxMenuItems)
    /\ suggestionMap \in SuggestionMaps(MaxSuggestions)
    /\ text = None
    /\ InitRest
NextChat ==
    \E msg \in ChatMessages, gpt \in GptReplies, log_ok \in BOOLEAN : Chat(msg, gpt, log_ok)
SpecChat == InitChat /\ [][NextChat]_vars

\* chat over triggers and questions of two scripts
InitScripts ==
    /\ KNOWLEDGE_BASE \in ChatBases(ScriptQuestions)
    /\ MENU_CACHE \in ScriptMenus
    /\ suggestionMap = DefaultSuggestions
    /\ text = None
    /\ InitRest
NextScripts ==
    \E msg \in ScriptMessages, gpt \in GptReplies, log_ok \in BOOLEAN : Chat(msg, gpt, log_ok)
SpecScripts == InitScripts /\ [][NextScripts]_vars

\* concurrent log_interaction calls, the log file empty at first
InitLog ==
    /\ KNOWLEDGE_BASE = <<>>
    /\ MENU_CACHE = DefaultMenu
    /\ suggestionMap = DefaultSuggestions
    /\ text = None
    /\ InitRest
NextLog == \E w \in Writers, ok \in BOOLEAN : LogRead(w, ok) \/ LogWrite(w, ok)
SpecLog == InitLog /\ [][NextLog]_vars

\* one call of call_yandex_gpt, pass by pass
NextGpt ==
    \/ GptCall
    \/ \E outcome \in GptOutcomes, took \in PostSeconds : GptPost(outcome, took)
    \/ GptSleep
SpecGpt == InitLog /\ [][NextGpt]_vars

\* how many admin requests a behaviour serves
MaxRequests == 3
MaxMixedRequests == 2

\* the requests on the menu, on the suggestions and on the knowledge base
MenuRequest ==
    \E admin, read_ok, write_ok \in BOOLEAN :
        \/ \E form \in MenuForms : AddMenuItem(admin, form, read_ok, write_ok)
        \/ \E index \in MenuIndexes, form \in MenuForms :
              EditMenuItem(admin, index, form, read_ok, write_ok)
        \/ \E index \in MenuIndexes : DeleteMenuItem(admin, index, read_ok, write_ok)
        \/ write_ok /\ ClearMenuCache(admin, read_ok)
SuggestionRequest ==
    \E admin, write_ok \in BOOLEAN :
        \/ \E form \in SuggestionForms : AddSuggestion(admin, form, write_ok)
        \/ \E topic \in UrlTopics, label \in UrlTexts :
              DeleteSuggestion(admin, topic, label, write_ok)
        \/ \E topic \in UrlTopics, label \in UrlTexts, form \in SuggestionForms :
              \/ EditSuggestion(admin, topic, label, form, write_ok)
              \/ UpdateSuggestion(admin, topic, label, form, write_ok)
KnowledgeRequest ==
    \E admin, read_ok, write_ok \in BOOLEAN, form \in KnowledgeForms :
        \/ KnowledgeEdit(admin, form, read_ok, write_ok)
        \/ read_ok /\ form.action = "add" /\ EditResponse(admin, form, write_ok)

\* MaxRequests requests on the menu, from the default menu
NextMenu == requests < MaxRequests /\ requests' = requests + 1 /\ MenuRequest
SpecMenu == InitLog /\ [][NextMenu]_vars

\* MaxRequests requests on the suggestions, from the default map
NextSuggestions ==
    requests < MaxRequests /\ requests' = requests + 1 /\ SuggestionRequest
SpecSuggestions == InitLog /\ [][NextSuggestions]_vars

\* MaxRequests requests on the knowledge base and one chat request, in any
\* order, from a knowledge base of one entry
InitKnowledge ==
    /\ KNOWLEDGE_BASE = <<[question |-> <<"a">>, answer |-> <<"x">>]>>
    /\ MENU_CACHE = DefaultMenu
    /\ suggestionMap = DefaultSuggestions
    /\ text = None
    /\ InitRest
NextKnowledge ==
    \/ requests < MaxRequests /\ requests' = requests + 1 /\ KnowledgeRequest
    \/ \E msg \in KnowledgeMessages : ChatLookup(msg)
    \/ \E gpt \in GptReplies, log_ok \in BOOLEAN : ChatFinish(gpt, log_ok)
SpecKnowledge == InitKnowledge /\ [][NextKnowledge]_vars

\* MaxMixedRequests admin requests of any kind
NextAdmin ==
    /\ requests < MaxMixedRequests
    /\ requests' = requests + 1
    /\ (MenuRequest \/ SuggestionRequest \/ KnowledgeRequest)
SpecAdmin == InitKnowledge /\ [][NextAdmin]_vars

----------------------------------------------------------------------------
(* What the last call was given and what a key matches, read off the state *)

Entries == 1..Len(KNOWLEDGE_BASE)
KeyOf(i) == KNOWLEDGE_BASE[i].question
AnswerOf(i) == KNOWLEDGE_BASE[i].answer
NormalizedQuestion == normalize_text(question)
NormalizedKey(i) == normalize_text(KeyOf(i))

\* the words of s: its maximal runs of non-blank characters
WordStarts(s) == {i \in 1..Len(s) : ~IsSpace(s[i]) /\ (i = 1 \/ IsSpace(s[i - 1]))}
WordEnds(s) == {j \in 1..Len(s) : ~IsSpace(s[j]) /\ (j = Len(s) \/ IsSpace(s[j + 1]))}
WordsOf(s) ==
    {SubSeq(s, w[1], w[2]) :
        w \in {v \in WordStarts(s) \X WordEnds(s) :
                  v[1] <= v[2] /\ \A k \in v[1]..v[2] : ~IsSpace(s[k])}}
WordCount(s) == Cardinality(WordStarts(s))

RawMatch(i) == KeyOf(i) = question
NormMatch(i) == NormalizedKey(i) = NormalizedQuestion
SubMatch(i) ==
    \/ IsSubstring(NormalizedKey(i), NormalizedQuestion)
    \/ IsSubstring(NormalizedQuestion, NormalizedKey(i))
Shared(i) == Cardinality(WordsOf(NormalizedQuestion) \cap WordsOf(NormalizedKey(i)))
DistinctWords == Cardinality(WordsOf(NormalizedQuestion))
OverlapMatch(i) ==
    DistinctWords > 1 /\ Shared(i) >= 1 /\ 2 * Shared(i) >= DistinctWords

\* the earliest tier at which a key matches, 5 when it never does, from the
\* normalized key nk, the normalized question nq, the number of shared words
\* and the number of distinct words of the question
TierGiven(raw, nk, nq, shared, distinct) ==
    IF raw THEN 1
    ELSE IF nk = nq THEN 2
    ELSE IF IsSubstring(nk, nq) \/ IsSubstring(nq, nk) THEN 3
    ELSE IF distinct > 1 /\ shared >= 1 /\ 2 * shared >= distinct THEN 4
    ELSE 5
TierOf(i) ==
    TierGiven(RawMatch(i), NormalizedKey(i), NormalizedQuestion, Shared(i), DistinctWords)
\* per entry: its place, the earliest tier at which it matches, its score
OverlapRows ==
    LET nq == NormalizedQuestion
        qw == WordsOf(nq)
        distinct == Cardinality(qw)
        Row(i) ==
            LET nk == NormalizedKey(i)
                shared == Cardinality(qw \cap WordsOf(nk))
            IN  <<i, TierGiven(RawMatch(i), nk, nq, shared, distinct), shared>>
    IN  {Row(i) : i \in Entries}
\* the first entry, in iteration order, that satisfies P
FirstOf(P(_)) == CHOOSE i \in Entries : P(i) /\ \A j \in 1..(i - 1) : ~P(j)

Called == pc = "found"

----------------------------------------------------------------------------
(* C1: the tiers are tried in the order exact-raw, exact-normalized,        *)
(* substring, word-overlap, and the first tier at which any key matches     *)
(* decides the result, wherever that key stands in the iteration order.     *)
C1_TierOrder ==
    Called =>
        LET hits == {<<r[2], AnswerOf(r[1])>> : r \in OverlapRows}
            earliest == IF hits = {} THEN 5
                        ELSE (CHOOSE h \in hits : \A g \in hits : h[1] <= g[1])[1]
        IN  /\ earliest <= 3 => <<earliest, result>> \in hits
            /\ earliest = 4 => (result = None \/ <<4, result>> \in hits)
            /\ earliest = 5 => result = None

\* a later key decided at an earlier tier than a key standing before it
C1_Witness ==
    /\ Called
    /\ LET rows == OverlapRows
       IN  \E r, s \in rows :
              /\ s[1] < r[1]
              /\ s[2] > r[2] /\ s[2] <= 4
              /\ \A t \in rows : t[2] >= r[2]
              /\ AnswerOf(s[1]) # AnswerOf(r[1])
              /\ result = AnswerOf(r[1])

(* C2: a question that is itself a key gets that key's answer, whatever     *)
(* the question normalizes to and whatever other keys normalize to it.      *)
C2_ExactRaw ==
    Called => \A i \in Entries : RawMatch(i) => result = AnswerOf(i)

\* the question is a key that normalization alters, and a key before it
\* normalizes to the same string
C2_Witness ==
    /\ Called
    /\ \E i, j \in Entries :
          /\ RawMatch(i) /\ NormalizedQuestion # question
          /\ j < i /\ NormMatch(j) /\ AnswerOf(j) # AnswerOf(i)
          /\ result = AnswerOf(i)

(* C3: when the raw question is no key but some keys normalize to the same  *)
(* string as the question, the first of them in iteration order answers.    *)
C3_ExactNormalized ==
    (Called /\ (\A i \in Entries : ~RawMatch(i)) /\ (\E i \in Entries : NormMatch(i)))
        => result = AnswerOf(FirstOf(NormMatch))

\* two keys normalize to the question and the first one answered
C3_Witness ==
    /\ Called
    /\ \A i \in Entries : ~RawMatch(i)
    /\ \E i, j \in Entries :
          i < j /\ NormMatch(i) /\ NormMatch(j) /\ AnswerOf(i) # AnswerOf(j)
          /\ result = AnswerOf(i)

----------------------------------------------------------------------------
(* The word-overlap tier, read off the state *)

NoEarlierTier == \A i \in Entries : ~RawMatch(i) /\ ~NormMatch(i) /\ ~SubMatch(i)

\* ceil(0.5 * n), at least 1
HalfUp(n) == IF n <= 1 THEN 1 ELSE (n + 1) \div 2

\* the first key, in iteration order, among the matching keys of highest score
IsBestRow(r, rows) ==
    /\ r[2] = 4
    /\ \A s \in rows : s[2] = 4 => s[3] <= r[3]
    /\ \A s \in rows : (s[2] = 4 /\ s[1] < r[1]) => s[3] < r[3]
IsBest(i) == \E r \in OverlapRows : r[1] = i /\ IsBestRow(r, OverlapRows)

(* C5: at the word-overlap tier a key qualifies only if it shares at least  *)
(* max(1, ceil(0.5 * n)) words with the question, n being the number of     *)
(* whitespace-delimited words of the normalized question; a key sharing 2   *)
(* words with a 5-word question never qualifies.                            *)
C5_Threshold ==
    (Called /\ NoEarlierTier /\ result # None) =>
        \E i \in Entries :
            /\ result = AnswerOf(i)
            /\ Shared(i) >= HalfUp(WordCount(NormalizedQuestion))

(* C6: the word-overlap tier is attempted exactly when the normalized       *)
(* question has more than one whitespace-delimited word, repeated words     *)
(* counting; a one-word question that misses tiers 1-3 gets None.           *)
C6_AttemptedIffSeveralWords ==
    (Called /\ NoEarlierTier) =>
        /\ WordCount(NormalizedQuestion) <= 1 => result = None
        /\ (/\ WordCount(NormalizedQuestion) > 1
            /\ \E i \in Entries : Shared(i) >= HalfUp(WordCount(NormalizedQuestion))
            /\ \A i \in Entries : AnswerOf(i) # <<>>)
              => result # None

(* C7: at the word-overlap tier the answer returned is that of a qualifying *)
(* key of highest score, and among the keys of that score the first in      *)
(* iteration order: a later key of equal score never replaces it.           *)
C7_FirstBest ==
    Called =>
        LET rows == OverlapRows
        IN  (\A r \in rows : r[2] >= 4) =>
                /\ result # None =>
                      \E r \in rows : IsBestRow(r, rows) /\ result = AnswerOf(r[1])
                /\ \A r \in rows :
                      (IsBestRow(r, rows) /\ AnswerOf(r[1]) # <<>>) => result = AnswerOf(r[1])

\* two qualifying keys of equal, highest score; the earlier one answered
C7_Witness ==
    /\ Called
    /\ LET rows == OverlapRows
       IN  /\ \A r \in rows : r[2] >= 4
           /\ \E r, s \in rows :
                 /\ r[1] < s[1] /\ IsBestRow(r, rows) /\ s[2] = 4 /\ s[3] = r[3]
                 /\ AnswerOf(s[1]) # AnswerOf(r[1]) /\ AnswerOf(s[1]) # <<>>
                 /\ result = AnswerOf(r[1])

----------------------------------------------------------------------------
(* C8: a call of find_in_knowledge_base leaves KNOWLEDGE_BASE (keys,        *)
(* answers and iteration order), the menu, the suggestion map and the log   *)
(* as they were, and a miss is reported by returning None.                  *)
NoMatch == \A i \in Entries : TierOf(i) = 5

C8_PureLookup ==
    Called => (collections = entry /\ (NoMatch => result = None))

\* a miss on a knowledge base that has entries
C8_Witness == Called /\ KNOWLEDGE_BASE # <<>> /\ NoMatch /\ result = None

----------------------------------------------------------------------------
(* C9: normalize_text is idempotent: normalizing its own result returns     *)
(* that result.                                                             *)
C9_Idempotent == pc = "renormalized" => renormalized = normalized

\* an input that normalization changed into a non-empty string, renormalized
C9_Witness ==
    /\ pc = "renormalized"
    /\ text # None /\ normalized # text /\ normalized # <<>>
    /\ \E i \in 1..Len(text) : IsSpace(text[i])
    /\ \E i \in 1..Len(text) : text[i] \in Punctuation

(* C10: the result of normalize_text holds only lower-case letters, digits  *)
(* and single spaces (the underscore and punctuation are stripped), has no  *)
(* leading or trailing space and no two adjacent spaces; an empty or null   *)
(* input gives the empty string.                                            *)
C10_OnlyLettersDigitsSpaces ==
    pc \in {"normalized", "renormalized"} =>
        /\ \A i \in 1..Len(normalized) :
              normalized[i] \in LowerLetters \cup Digits \cup {" "}
        /\ normalized # <<>> => (normalized[1] # " " /\ normalized[Len(normalized)] # " ")
        /\ \A i \in 1..(Len(normalized) - 1) :
              ~(normalized[i] = " " /\ normalized[i + 1] = " ")
        /\ text \in {None, <<>>} => normalized = <<>>

----------------------------------------------------------------------------
(* The last chat request, read off the state *)

Chatted == pc = "chatted"
IsBlank(m) == \A i \in 1..Len(m) : IsSpace(m[i])
\* the request held a message that is not empty once stripped
Answered == Chatted /\ message # None /\ ~IsBlank(message)
\* the log as the request found it
LogBefore == entry[4]

MenuMatch(i) == normalize_text(MENU_CACHE[i].question) = normalize_text(message)
MenuMatches == {i \in 1..Len(MENU_CACHE) : MenuMatch(i)}
\* find_in_knowledge_base on the stripped message
KbAnswer == find_in_knowledge_base(strip(message), KNOWLEDGE_BASE)

(* C11: in chat, a menu topic that is no key of the suggestion map gets the *)
(* suggestions of the "default" topic, which are not an empty list when     *)
(* "default" is populated.                                                  *)
C11_UnknownTopicFallsBack ==
    (Answered /\ Truthy(menu_topic) /\ menu_topic \notin DOMAIN suggestionMap
              /\ reply.source # "error")
        => /\ reply.suggestions = Labels(suggestionMap[DefaultTopic])
           /\ reply.suggestions # <<>>

(* C12: chat's topic is the suggestion topic of the first menu item, in     *)
(* menu order, whose normalized question equals the normalized message, and *)
(* None when no item matches; later matching items do not count.            *)
C12_TopicResolution ==
    Answered =>
        LET matches == MenuMatches
        IN  menu_topic =
                IF matches = {} THEN None
                ELSE MENU_CACHE[CHOOSE i \in matches : \A j \in matches : i <= j]
                         .suggestion_topic

\* two items match, their topics differ, the first one's topic was taken
C12_Witness ==
    /\ Answered
    /\ \E i, j \in MenuMatches :
          /\ i < j
          /\ MENU_CACHE[i].suggestion_topic # MENU_CACHE[j].suggestion_topic
          /\ Truthy(MENU_CACHE[j].suggestion_topic)
          /\ menu_topic = MENU_CACHE[i].suggestion_topic

(* C13: with a menu item whose question is the Latin "vr" and whose topic   *)
(* is "vr", the question "VR" resolves to the topic "vr".                   *)
C13_LatinTrigger ==
    (/\ Chatted
     /\ MENU_CACHE = <<[question |-> <<"v", "r">>, suggestion_topic |-> VrTopic]>>
     /\ message = <<"V", "R">>)
        => menu_topic = VrTopic

C13_Witness ==
    /\ Chatted
    /\ MENU_CACHE = <<[question |-> <<"v", "r">>, suggestion_topic |-> VrTopic]>>
    /\ message = <<"V", "R">>
    /\ menu_topic = VrTopic

\* the same with the question of the menu item in Cyrillic letters
C13_CyrillicTrigger ==
    (/\ Chatted
     /\ MENU_CACHE = <<[question |-> <<"u0432", "u0440">>, suggestion_topic |-> VrTopic]>>
     /\ message = <<"V", "R">>)
        => menu_topic = VrTopic

(* C14: with a topic resolved, the first suggestion of the topic whose      *)
(* normalized question equals the normalized message gives the answer, with *)
(* source "suggestion_map", whatever the knowledge base holds; the          *)
(* knowledge base is asked only when no suggestion matches, the generator   *)
(* only when the knowledge base gave no answer either.                      *)
C14_SuggestionFirst ==
    (Answered /\ Truthy(menu_topic)) =>
        LET list == Get(suggestionMap, menu_topic)
            matches == {i \in 1..Len(list) :
                           normalize_text(list[i].question) = normalize_text(message)}
        IN  /\ matches # {} =>
                  /\ reply.response =
                         list[CHOOSE i \in matches : \A j \in matches : i <= j].answer
                  /\ reply.source = "suggestion_map"
                  /\ calls.kb_calls = 0 /\ calls.gpt_calls = 0
            /\ calls.kb_calls > 0 => matches = {}
            /\ calls.gpt_calls > 0 => (matches = {} /\ ~Truthy(KbAnswer))

\* two suggestions of the topic match and the knowledge base has an answer too
C14_Witness ==
    /\ Answered /\ Truthy(menu_topic)
    /\ Truthy(KbAnswer)
    /\ LET list == Get(suggestionMap, menu_topic)
       IN  /\ Len(list) = 2
           /\ \A i \in 1..2 : normalize_text(list[i].question) = normalize_text(message)
           /\ list[1].answer # list[2].answer
           /\ reply.response = list[1].answer
    /\ reply.source = "suggestion_map"

(* C15: an empty or whitespace-only message gets the prompt for input with  *)
(* source "error" and no suggestions; the generator is not called, the      *)
(* knowledge base is not asked and no log record is written.                *)
C15_EmptyMessage ==
    (Chatted /\ message # None /\ IsBlank(message)) =>
        /\ reply = [raised |-> FALSE, response |-> PromptForInput,
                    source |-> "error", suggestions |-> <<>>]
        /\ calls.gpt_calls = 0 /\ calls.kb_calls = 0 /\ calls.log_calls = 0
        /\ bot_log = LogBefore

\* a message of blanks only, on a knowledge base that has an entry
C15_Witness ==
    /\ Chatted /\ message # None /\ message # <<>> /\ IsBlank(message)
    /\ KNOWLEDGE_BASE # <<>>
    /\ reply.response = PromptForInput

(* C16: with no menu topic, an answer found in the knowledge base is        *)
(* returned with source "knowledge_base" and the generator is not called;   *)
(* otherwise the generator is called and what it returns is the answer,     *)
(* with source "yandex_gpt". A base of one key and a message that is the    *)
(* key in capitals get the key's answer with source "knowledge_base".       *)
C16_NoTopic ==
    (Answered /\ ~Truthy(menu_topic)) =>
        IF Truthy(KbAnswer)
        THEN /\ reply.response = KbAnswer
             /\ reply.source = "knowledge_base"
             /\ calls.gpt_calls = 0
        ELSE /\ calls.gpt_calls = 1
             /\ ~calls.gpt.raised =>
                   (reply.response = calls.gpt.value /\ reply.source = "yandex_gpt")

\* base {"a": "x"}, message "A", no menu item: answer "x" from the base
C16_Witness ==
    /\ Answered /\ ~Truthy(menu_topic)
    /\ KNOWLEDGE_BASE = <<[question |-> <<"a">>, answer |-> <<"x">>]>>
    /\ message = <<"A">>
    /\ reply.response = <<"x">> /\ reply.source = "knowledge_base"

(* C17: whenever the generator fails (no attempt delivers, a status other   *)
(* than 200, an authorization error, a malformed body) the response is a    *)
(* non-empty apology with source "error".                                   *)
C17_FailureTaggedError ==
    (Chatted /\ calls.gpt_calls > 0 /\ calls.gpt.failed) =>
        (reply.source = "error" /\ Truthy(reply.response))

(* C18: every chat request ends with a response that holds a textual        *)
(* answer and a list of suggestions; nothing is raised out of the handler.  *)
C18_AlwaysAnswers == Chatted => (~reply.raised /\ reply.response # None)

(* C19: for a message that is not empty, log_interaction is called exactly  *)
(* once; when its write goes through the log grows by exactly one record,   *)
(* (stripped message, answer, source), and is unchanged otherwise; the      *)
(* record's source is the one returned, and so is its answer except when    *)
(* the handler's except clause answered, where the record holds the error   *)
(* answer followed by the exception's text.                                 *)
C19_OneRecordPerRequest ==
    Answered =>
        /\ calls.log_calls = 1
        /\ bot_log =
              IF calls.written
              THEN Append(LogBefore,
                          LogEntry(strip(message),
                                   IF calls.gpt.raised
                                   THEN ErrorDetail(calls.gpt.value[1])
                                   ELSE reply.response,
                                   reply.source))
              ELSE LogBefore

\* the except clause answered and its record reached the log
C19_Witness ==
    /\ Answered /\ calls.gpt.raised /\ calls.written
    /\ Len(bot_log) = Len(LogBefore) + 1
    /\ bot_log[Len(bot_log)].answer # reply.response
    /\ bot_log[Len(bot_log)].source = reply.source

\* exactly one record, holding the answer and the source returned
C19_RecordEqualsReply ==
    Answered =>
        bot_log = Append(LogBefore, LogEntry(strip(message), reply.response, reply.source))

(* C20: under any interleaving of concurrent log_interaction calls, every   *)
(* call that completed without error has its entry in the log file.         *)
C20_NoLostEntry ==
    \A w \in Writers :
        writer_pc[w] = "done" => \E i \in 1..Len(bot_log) : bot_log[i] = WriterEntry(w)

----------------------------------------------------------------------------
(* C21: call_yandex_gpt always ends by returning a string, after no more    *)
(* than four posts of at most ten seconds each with one second of sleep     *)
(* after a failed one; the fallback string comes once the posts are used up.*)
C21_EndsWithString ==
    /\ gpt_run.state # "raised"
    /\ gpt_run.state = "returned" => Truthy(gpt_run.value)
    /\ gpt_run.attempt <= 4
    /\ gpt_run.seconds <= 4 * (Timeout + 1)
    /\ gpt_run.value = GiveUpApology => gpt_run.attempt = Attempts

----------------------------------------------------------------------------
(* read off the admin requests *)

\* the last request was served by one of these handlers
ServedBy(handlers) == request.handler \in handlers
SuggestionHandlers ==
    {"add_suggestion", "delete_suggestion", "edit_suggestion", "update_suggestion"}
UniqueLabels(topic_suggestions) ==
    \A i, j \in 1..Len(topic_suggestions) :
        i # j => topic_suggestions[i].text # topic_suggestions[j].text

(* C22: after any admin suggestion operations from a map whose "default"    *)
(* topic is non-empty, the "default" topic exists and is non-empty.         *)
C22_DefaultStaysNonEmpty ==
    /\ DefaultTopic \in DOMAIN suggestionMap
    /\ suggestionMap[DefaultTopic] # <<>>

(* C23: after any admin suggestion operations from a map with unique labels *)
(* per topic, no topic holds two suggestions with the same label.           *)
C23_LabelsUnique ==
    \A topic \in DOMAIN suggestionMap : UniqueLabels(suggestionMap[topic])

\* the form of the last add or edit, and the list load_menu gave it
FormSent == request.args[Len(request.args) - 1]
MenuLoaded == request.args[Len(request.args)]
UniqueQuestions(menu_items) ==
    \A i, j \in 1..Len(menu_items) : i # j => menu_items[i].question # menu_items[j].question
\* the last request was an add or an edit by an admin, of a filled form whose
\* question another item of the loaded menu has
DuplicateQuestionSent ==
    /\ ServedBy({"add_menu_item", "edit_menu_item"})
    /\ request.admin
    /\ LET index == IF request.handler = "add_menu_item" THEN -1 ELSE request.args[1]
       IN  /\ FormFilled(FormSent)
           /\ index < Len(MenuLoaded)
           /\ Taken(MenuLoaded, "question", lower(strip(FormSent.question)), index)

(* C24: after any add_menu_item, edit_menu_item and delete_menu_item from a *)
(* menu with unique trigger questions the questions are unique, in the      *)
(* cached menu and in the file; an add or edit whose question another item  *)
(* has is refused and leaves the menu it loaded and the file as they were.  *)
C24_QuestionsUnique ==
    /\ MENU_CACHE # NoMenu => UniqueQuestions(MENU_CACHE)
    /\ UniqueQuestions(files.menu)
    /\ DuplicateQuestionSent =>
          /\ ~request.success
          /\ MENU_CACHE = MenuLoaded
          /\ files = request.before.files
\* an add was refused for its question alone
C24_Witness ==
    /\ DuplicateQuestionSent
    /\ request.handler = "add_menu_item"
    /\ ~Taken(MenuLoaded, "admin_text", strip(FormSent.admin_text), -1)
    /\ Len(MENU_CACHE) = 2

(* C30: a request without an admin session changes neither the knowledge    *)
(* base, the cached menu, the suggestion map nor their files.               *)
C30_SessionRequired ==
    (request.handler # "" /\ ~request.admin) =>
        /\ KNOWLEDGE_BASE = request.before.memory[1]
        /\ MENU_CACHE = request.before.memory[2]
        /\ suggestionMap = request.before.memory[3]
        /\ files = request.before.files

KnowledgeHandlers == {"knowledge_edit", "edit_response"}

\* the knowledge base as add_, update_ or delete_knowledge_item left it:
\* knowledge_edit loads it anew before it returns, edit_response does not
KnowledgeChanged ==
    IF request.handler = "knowledge_edit" THEN request.args.changed ELSE KNOWLEDGE_BASE

C26_FailedWriteReported ==
    request.wrote = "failed" => ~request.success

(* C27: when the read in load_knowledge_base fails the knowledge base in    *)
(* memory stays as it was: as the request left it, when it changed it.      *)
C27_FailedReadKeepsSnapshot ==
    (request.handler = "knowledge_edit" /\ request.admin /\ ~request.args.read_ok) =>
        KNOWLEDGE_BASE = request.args.changed

(* C28: on the path without a topic the source tag agrees with where the    *)
(* answer came from, also when an admin changes the knowledge base while    *)
(* the request is served: "knowledge_base" exactly when the generator was   *)
(* not called.                                                              *)
C28_SourceAgreesWithOrigin ==
    (Answered /\ ~Truthy(menu_topic) /\ ~reply.raised) =>
        (reply.source = "knowledge_base" <=> calls.gpt_calls = 0)

----------------------------------------------------------------------------
\* the key of entry i is empty once normalized
EmptyKey(i) == NormalizedKey(i) = <<>>
\* a question that is no raw key and is empty once normalized, asked of a
\* knowledge base that has entries
EmptyQuestion ==
    /\ Called
    /\ KNOWLEDGE_BASE # <<>>
    /\ \A i \in Entries : ~RawMatch(i)
    /\ NormalizedQuestion = <<>>

(* C29: on a knowledge base that has entries, a question that is no raw key *)
(* and is empty once normalized is answered by the first entry whose key is *)
(* empty once normalized and, when there is none, by the first entry; a key *)
(* that is empty once normalized matches every question at the substring    *)
(* tier; None is returned for such a question only by an empty base.        *)
C29_EmptyKeyThenFirstEntry ==
    /\ EmptyQuestion =>
          /\ result = AnswerOf(IF \E i \in Entries : EmptyKey(i)
                               THEN FirstOf(EmptyKey) ELSE 1)
          /\ result # None
    /\ (Called /\ KNOWLEDGE_BASE = <<>> /\ NormalizedQuestion = <<>>) => result = None
    /\ Called => \A i \in Entries : EmptyKey(i) => (SubMatch(i) /\ result # None)
\* the second entry answered, its key being the one empty once normalized
C29_Witness ==
    /\ EmptyQuestion
    /\ Len(KNOWLEDGE_BASE) = 2
    /\ ~EmptyKey(1) /\ EmptyKey(2)
    /\ AnswerOf(1) # AnswerOf(2)
    /\ result = AnswerOf(2)
\* the same with the first entry answering whatever the keys
C29_FirstEntryAnswers ==
    /\ EmptyQuestion => (result = AnswerOf(1) /\ result # None)
    /\ (Called /\ KNOWLEDGE_BASE = <<>> /\ NormalizedQuestion = <<>>) => result = None
    /\ Called => \A i \in Entries : EmptyKey(i) => (SubMatch(i) /\ result # None)

====
